---- MODULE Spec2Model ----
(***************************************************************************)
(* Model of sriman2005/ci-cd-pipeline.                                     *)
(*                                                                         *)
(* Part 1: the Express application of src/app/app.js: the request-metrics  *)
(* middleware (app.js:40-62), the three registered series (app.js:17-37),  *)
(* the route table (app.js:69-116) and the /metrics export (app.js:83-90). *)
(* Part 2: the declarative pipeline of src/Jenkinsfile.                    *)
(*                                                                         *)
(* Units: the wall clock `now` counts sub-millisecond ticks, TicksPerMs of *)
(* them to a millisecond.  Date.now() returns whole milliseconds.  A       *)
(* duration d in this model is a whole number of milliseconds and stands   *)
(* for the JavaScript number d/1000 (seconds); the bucket bounds of        *)
(* app.js:21 are written in the same unit (0.1 s = 100).  d/1000 and the   *)
(* literal bounds are both the correctly rounded doubles of the same       *)
(* rationals, so comparing the millisecond integers agrees with comparing  *)
(* the doubles.                                                            *)
(***************************************************************************)
EXTENDS Integers, Sequences, FiniteSets, TLC

VARIABLES
    requests,                        \* every request the server has received, in order of arrival
    now,                             \* wall clock, in ticks
    httpRequestDurationMicroseconds, \* Histogram: label combination -> [count, sum, buckets]
    httpRequestsTotal,               \* Counter: label combination -> value
    httpErrorsTotal,                 \* Counter: label combination -> value
    console,                         \* lines written with console.log
    jenkinsfile,                     \* pipeline: the pipeline definition the build runs
    params,                          \* pipeline: the build parameters
    stage,                           \* pipeline: the stage to run next
    result,                          \* pipeline: currentBuild.result
    executed,                        \* pipeline: the stages whose steps ran
    scan,                            \* pipeline: what the container scan met
    echoed,                          \* pipeline: notable lines of the build log
    summary                          \* pipeline: the result summaries handed to httpRequest

appVars == <<requests, now, httpRequestDurationMicroseconds, httpRequestsTotal, httpErrorsTotal, console>>

pipeVars == <<jenkinsfile, params, stage, result, executed, scan, echoed, summary>>

----------------------------------------------------------------------------
(* Bounds of the model *)

MaxRequests == 2
MaxTime == 2
TicksPerMs == 2
ScenarioRequests == 5
ScenarioInFlight == 2

----------------------------------------------------------------------------
(* Inputs *)

\* The route table, in registration order (all registered with app.get).
Routes == {"/health", "/ready", "/metrics", "/", "/api/status", "/api/error-test"}

\* The requests the environment sends, as <<req.method, req.path>>: a
\* matched route answering 200, the error test, the export, and a path no
\* route matches.  "/API/Status/" is a raw URL that differs from every
\* pattern and is still matched by '/api/status' (express() defaults:
\* case-insensitive, non-strict routing).
RequestKinds ==
    {<<"GET", "/API/Status/">>, <<"GET", "/api/error-test">>,
     <<"GET", "/metrics">>, <<"POST", "/nope">>}

NoRoute == "<none>"

\* The pattern a raw path matches, by path alone.
PathPattern(path) ==
    CASE path = "/API/Status/" -> "/api/status"
      [] path \in Routes -> path
      [] OTHER -> NoRoute

\* req.route.path after routing: a route is stored on the request only when
\* a layer matches the path and the route handles the method (app.get).
MatchRoute(method, path) ==
    IF method = "GET" THEN PathPattern(path) ELSE NoRoute

----------------------------------------------------------------------------
(* The clock *)

\* Date.now(): whole milliseconds.
DateNow(t) == t \div TicksPerMs

----------------------------------------------------------------------------
(* prom-client series *)

\* buckets: [0.1, 0.3, 0.5, 0.7, 1, 3, 5, 7, 10] seconds, in milliseconds.
Buckets == <<100, 300, 500, 700, 1000, 3000, 5000, 7000, 10000>>

EmptyEntry == [count |-> 0, sum |-> 0, buckets |-> [i \in DOMAIN Buckets |-> 0]]

\* Mutant of Inc: the stored value is overwritten, not added to.
IncOverwrite(counter, labels) ==
    IF labels \in DOMAIN counter
    THEN [counter EXCEPT ![labels] = 1]
    ELSE counter @@ (labels :> 1)

\* Counter.inc(labels): the entry is created on first use.
Inc(counter, labels) ==
    IF labels \in DOMAIN counter
    THEN [counter EXCEPT ![labels] = @ + 1]
    ELSE counter @@ (labels :> 1)

\* Mutant of Observe: the series is rebuilt around the observed entry, the
\* other label combinations are dropped.
ObserveFresh(hist, labels, value) ==
    LET old == IF labels \in DOMAIN hist THEN hist[labels] ELSE EmptyEntry
    IN  (labels :> [count |-> old.count + 1,
                    sum |-> old.sum + value,
                    buckets |-> [i \in DOMAIN Buckets |->
                                    old.buckets[i] + (IF value <= Buckets[i] THEN 1 ELSE 0)]])

\* Histogram.observe(labels, value).
Observe(hist, labels, value) ==
    LET old == IF labels \in DOMAIN hist THEN hist[labels] ELSE EmptyEntry
        new == [count |-> old.count + 1,
                sum |-> old.sum + value,
                buckets |-> [i \in DOMAIN Buckets |->
                                old.buckets[i] + (IF value <= Buckets[i] THEN 1 ELSE 0)]]
    IN  IF labels \in DOMAIN hist
        THEN [hist EXCEPT ![labels] = new]
        ELSE hist @@ (labels :> new)

\* res.statusCode.toString()
StatusToString(code) ==
    CASE code = 200 -> "200"
      [] code = 404 -> "404"
      [] code = 500 -> "500"

\* One sample line of the exposition format.  le = 0: the line has no le
\* label; le = -1: le="+Inf".
Sample(name, labels, le, value) ==
    [name |-> name, labels |-> labels, le |-> le, value |-> value]

\* Mutant of Metrics: http_errors_total is missing from the snapshot.
MetricsWithoutErrors(hist, total, errors) ==
    {Sample("http_request_duration_seconds_count", l, 0, hist[l].count) : l \in DOMAIN hist}
    \cup {Sample("http_requests_total", l, 0, total[l]) : l \in DOMAIN total}

\* register.metrics(): every registered custom series, every label
\* combination observed so far.  (The default process metrics of app.js:14
\* come from the environment and are left out.)
Metrics(hist, total, errors) ==
    {Sample("http_request_duration_seconds_bucket", l, Buckets[i], hist[l].buckets[i]) :
        l \in DOMAIN hist, i \in DOMAIN Buckets}
    \cup {Sample("http_request_duration_seconds_bucket", l, -1, hist[l].count) : l \in DOMAIN hist}
    \cup {Sample("http_request_duration_seconds_sum", l, 0, hist[l].sum) : l \in DOMAIN hist}
    \cup {Sample("http_request_duration_seconds_count", l, 0, hist[l].count) : l \in DOMAIN hist}
    \cup {Sample("http_requests_total", l, 0, total[l]) : l \in DOMAIN total}
    \cup {Sample("http_errors_total", l, 0, errors[l]) : l \in DOMAIN errors}

----------------------------------------------------------------------------
(* Route handlers *)

Body(kind, samples) == [kind |-> kind, samples |-> samples]

\* The status a synchronous handler answers with (404: no route matched,
\* the framework's final handler answers).
HandlerStatus(route) ==
    CASE route = "/api/error-test" -> 500
      [] route = NoRoute -> 404
      [] OTHER -> 200

HandlerBody(route) ==
    CASE route = "/api/error-test" -> Body("json-error", {})
      [] route = NoRoute -> Body("not-found", {})
      [] route = "/" -> Body("text", {})
      [] OTHER -> Body("json", {})

----------------------------------------------------------------------------
(* The metrics middleware *)

\* Mutant of RouteLabel: the raw path is always used.
RouteLabelRawPath(req) == req.path

\* const route = req.route ? req.route.path : req.path;
RouteLabel(req) == IF req.route # NoRoute THEN req.route ELSE req.path

LabelsOf(req) ==
    [method |-> req.method, route |-> RouteLabel(req),
     status_code |-> StatusToString(req.statusCode)]

\* Mutant of Duration: the start time is read in ticks, the finish time in
\* milliseconds.
DurationMixedUnits(req, t) == DateNow(t) - req.t0

\* const duration = (Date.now() - start) / 1000;
Duration(req, t) == DateNow(t) - req.start

\* Mutant of CanFinish: the listener also runs for a response whose
\* connection was destroyed (as a 'close' listener would).
CanFinishOrClose(req) == req.stage = "ended"

\* 'finish' is emitted once, after res.end() handed the response to a
\* connection that is still open.
CanFinish(req) == req.stage = "ended" /\ req.conn = "open"

NoLabels == [method |-> "", route |-> "", status_code |-> ""]

\* The middleware and the routed handler run in one turn of the event loop:
\* start = Date.now(), the 'finish' listener is registered, next() routes
\* the request and the handler answers.  The synchronous handlers call
\* res.json/res.send/res.end at once; the /metrics handler sets the content
\* type, calls register.metrics() and suspends at its await.
Arrive(method, path) ==
    LET route == MatchRoute(method, path)
        async == route = "/metrics"
        req == [method |-> method, path |-> path, route |-> route,
                start |-> DateNow(now), t0 |-> now, conn |-> "open",
                stage |-> IF async THEN "awaiting" ELSE "ended",
                statusCode |-> IF async THEN 200 ELSE HandlerStatus(route),
                contentType |-> IF async THEN "metrics" ELSE "default",
                body |-> IF async THEN Body("none", {}) ELSE HandlerBody(route),
                snap |-> IF async
                         THEN Metrics(httpRequestDurationMicroseconds,
                                      httpRequestsTotal, httpErrorsTotal)
                         ELSE {},
                t1 |-> -1, duration |-> -1, labels |-> NoLabels]
    IN  /\ requests' = Append(requests, req)
        /\ UNCHANGED <<now, httpRequestDurationMicroseconds, httpRequestsTotal,
                       httpErrorsTotal, console, pipeVars>>

Request(method, path) ==
    /\ Len(requests) < MaxRequests
    /\ Arrive(method, path)

\* What the continuation of the /metrics handler does once the promise of
\* register.metrics() settles.
\*   "resolved":   res.end(snapshot).
\*   rejected:     the catch block runs res.status(500).end(err).  err is the
\*                 Error object the promise was rejected with, and res.end
\*                 takes a string or a buffer only: it throws a TypeError
\*                 inside the catch block and the async handler rejects.
\*   "threw":      nothing handles the rejection and nothing answers the
\*                 request (Express 4; where unhandled rejections are
\*                 fatal the process ends here, which is this behaviour
\*                 with no further step).
\*   "error-page": the router passes the rejection to the default error
\*                 handler, which answers 500 with its own error page
\*                 (Express 5).
ExportOutcomes == {"resolved", "threw", "error-page"}

Resumed(req, outcome) ==
    CASE outcome = "resolved" ->
            [req EXCEPT !.stage = "ended", !.body = Body("metrics", req.snap)]
      [] outcome = "threw" ->
            [req EXCEPT !.stage = "hung", !.statusCode = 500]
      [] outcome = "error-page" ->
            [req EXCEPT !.stage = "ended", !.statusCode = 500, !.contentType = "default",
                        !.body = Body("error-page", {})]

MetricsResume(i, outcome) ==
    /\ i \in DOMAIN requests
    /\ requests[i].stage = "awaiting"
    /\ requests' = [requests EXCEPT ![i] = Resumed(requests[i], outcome)]
    /\ UNCHANGED <<now, httpRequestDurationMicroseconds, httpRequestsTotal,
                   httpErrorsTotal, console, pipeVars>>

\* Mutant of IsServerError: client errors counted too.
IsServerErrorFrom400(code) == code >= 400

\* The 5xx branch of the listener.
IsServerError(code) == code >= 500

\* Mutant of Recorded: the counters are written back from a stale read
\* (a read-modify-write that another listener's update falls into), so an
\* entry that already holds a value loses it.
RecordedLostUpdate(hist, total, errors, req, t) ==
    LET labels == LabelsOf(req)
    IN  [hist |-> Observe(hist, labels, Duration(req, t)),
         total |-> IncOverwrite(total, labels),
         errors |-> IF IsServerError(req.statusCode)
                    THEN IncOverwrite(errors, labels) ELSE errors]

\* Mutant of Recorded: the 5xx branch comes first and returns, so an error
\* response is counted as an error only.
RecordedErrorReturnsEarly(hist, total, errors, req, t) ==
    LET labels == LabelsOf(req)
    IN  IF IsServerError(req.statusCode)
        THEN [hist |-> hist, total |-> total, errors |-> Inc(errors, labels)]
        ELSE [hist |-> Observe(hist, labels, Duration(req, t)),
              total |-> Inc(total, labels),
              errors |-> errors]

\* The body of the 'finish' listener: the three series after it has run
\* for request req at time t.
Recorded(hist, total, errors, req, t) ==
    LET duration == Duration(req, t)
        labels == LabelsOf(req)
    IN  [hist |-> Observe(hist, labels, duration),
         total |-> Inc(total, labels),
         errors |-> IF IsServerError(req.statusCode) THEN Inc(errors, labels) ELSE errors]

\* res.on('finish', ...): one callback, no await in it, so it runs to
\* completion before any other callback.
Finish(i) ==
    /\ i \in DOMAIN requests
    /\ CanFinish(requests[i])
    /\ LET req == requests[i]
           duration == Duration(req, now)
           labels == LabelsOf(req)
           after == Recorded(httpRequestDurationMicroseconds, httpRequestsTotal,
                             httpErrorsTotal, req, now)
       IN  /\ httpRequestDurationMicroseconds' = after.hist
           /\ httpRequestsTotal' = after.total
           /\ httpErrorsTotal' = after.errors
           /\ requests' = [requests EXCEPT ![i] =
                  [req EXCEPT !.stage = "finished", !.t1 = now,
                              !.duration = duration, !.labels = labels]]
    /\ UNCHANGED <<now, console, pipeVars>>

\* The client's connection is destroyed before the response has been
\* handed over.  The middleware listens to 'finish' only.
Abort(i) ==
    /\ i \in DOMAIN requests
    /\ requests[i].conn = "open"
    /\ requests[i].stage \in {"awaiting", "ended", "hung"}
    /\ requests' = [requests EXCEPT ![i].conn = "aborted"]
    /\ UNCHANGED <<now, httpRequestDurationMicroseconds, httpRequestsTotal,
                   httpErrorsTotal, console, pipeVars>>

\* Time passes.  The clock only moves forward (no wall-clock adjustment
\* between the two Date.now() readings of a request).
Tick ==
    /\ now < MaxTime
    /\ now' = now + 1
    /\ UNCHANGED <<requests, httpRequestDurationMicroseconds, httpRequestsTotal,
                   httpErrorsTotal, console, pipeVars>>

\* State after construction and app.listen: the three series are registered
\* and empty, the listen callback has logged its four lines.
AppInit ==
    /\ requests = <<>>
    /\ now = 0
    /\ httpRequestDurationMicroseconds = <<>>
    /\ httpRequestsTotal = <<>>
    /\ httpErrorsTotal = <<>>
    /\ console = <<"listening", "metrics-url", "health-url", "ready-url">>

AppNext ==
    \/ \E k \in RequestKinds : Request(k[1], k[2])
    \/ \E i \in 1..MaxRequests, o \in ExportOutcomes : MetricsResume(i, o)
    \/ \E i \in 1..MaxRequests : Finish(i)
    \/ \E i \in 1..MaxRequests : Abort(i)
    \/ Tick

\* The scenario of the specification's testable properties: requests to
\* GET /api/status, GET /api/error-test and GET /metrics only, every export
\* succeeds, no connection aborts, and the client keeps at most
\* ScenarioInFlight requests unanswered.
ScenarioKinds ==
    {<<"GET", "/api/status">>, <<"GET", "/api/error-test">>, <<"GET", "/metrics">>}

InFlight == {i \in DOMAIN requests : requests[i].stage \in {"awaiting", "ended"}}

ScenarioRequest(method, path) ==
    /\ Len(requests) < ScenarioRequests
    /\ Cardinality(InFlight) < ScenarioInFlight
    /\ Arrive(method, path)

ScenarioNext ==
    \/ \E k \in ScenarioKinds : ScenarioRequest(k[1], k[2])
    \/ \E i \in 1..ScenarioRequests : MetricsResume(i, "resolved")
    \/ \E i \in 1..ScenarioRequests : Finish(i)

----------------------------------------------------------------------------
(* The pipeline of src/Jenkinsfile, and the earlier pipeline kept at the   *)
(* end of src/app/app.js                                                   *)

\* The two pipeline definitions of the repository.
Jenkinsfiles == {"src/Jenkinsfile", "src/app/app.js"}

Stages ==
    <<"Install Dependencies", "Security: SAST", "Run Tests", "Docker Build",
      "Security: Container Scan", "Docker Push", "Kubernetes Deployment", "Chaos Test">>

\* stages { ... } of the pipeline in src/app/app.js
EarlierStages ==
    <<"Install Dependencies", "Run Tests", "Docker Build & Push", "Kubernetes Deployment">>

\* The stages of the pipeline definition the build runs.
StagesOf(file) == IF file = "src/Jenkinsfile" THEN Stages ELSE EarlierStages

IndexOf(name) == CHOOSE i \in DOMAIN StagesOf(jenkinsfile) : StagesOf(jenkinsfile)[i] = name

\* The stage after `name`; after the last one the post section runs.
After(name) ==
    IF IndexOf(name) < Len(StagesOf(jenkinsfile))
    THEN StagesOf(jenkinsfile)[IndexOf(name) + 1]
    ELSE "post"

\* A stage whose steps end normally.
Passed(name) ==
    /\ stage' = After(name)
    /\ executed' = executed \cup {name}

\* A stage whose steps throw: the build result becomes FAILURE, the stages
\* after it are not run, the post section runs.
Failed(name) ==
    /\ stage' = "post"
    /\ executed' = executed \cup {name}
    /\ result' = "FAILURE"

\* A stage whose `when` expression is false.
Skipped(name) ==
    /\ stage' = After(name)
    /\ UNCHANGED executed

\* bat 'npm install' (the same stage in both pipelines)
InstallDependencies(ok) ==
    /\ stage = "Install Dependencies"
    /\ IF ok THEN Passed(stage) /\ UNCHANGED result ELSE Failed(stage)
    /\ UNCHANGED <<jenkinsfile, params, scan, echoed, summary, appVars>>

\* npm audit (its exit status is forced to 0, findings only echo a warning)
\* and eslint (inside try/catch).
SecuritySAST(auditFindings) ==
    /\ stage = "Security: SAST"
    /\ IF params.SKIP_SECURITY_SCAN
       THEN Skipped(stage) /\ UNCHANGED echoed
       ELSE /\ Passed(stage)
            /\ echoed' = IF auditFindings
                         THEN echoed \cup {"WARNING: Vulnerabilities found in dependencies!"}
                         ELSE echoed
    /\ UNCHANGED <<jenkinsfile, params, result, scan, summary, appVars>>

\* bat 'npm test'
RunTests(ok) ==
    /\ jenkinsfile = "src/Jenkinsfile"
    /\ stage = "Run Tests"
    /\ IF ok THEN Passed(stage) /\ UNCHANGED result ELSE Failed(stage)
    /\ UNCHANGED <<jenkinsfile, params, scan, echoed, summary, appVars>>

\* docker build, docker tag
DockerBuild(ok) ==
    /\ stage = "Docker Build"
    /\ IF ok THEN Passed(stage) /\ UNCHANGED result ELSE Failed(stage)
    /\ UNCHANGED <<jenkinsfile, params, scan, echoed, summary, appVars>>

\* What the two trivy commands can meet.
\*   "table-fault": the first command (returnStdout) exits non-zero, bat throws.
\*   "clean":       the CRITICAL scan finds nothing and exits 0.
\*   "critical":    the CRITICAL scan reports findings and exits 1 (--exit-code 1).
\*   "scan-fault":  the CRITICAL scan itself fails (no vulnerability database,
\*                  image not found, trivy not installed) and exits non-zero
\*                  without reporting a finding.
ScanOutcomes == {"table-fault", "clean", "critical", "scan-fault"}

\* def criticalScan = bat(script: ..., returnStatus: true)
CriticalScanStatus(outcome) == IF outcome = "clean" THEN 0 ELSE 1

\* if (criticalScan != 0) { error("CRITICAL vulnerabilities found! ...") }
\* and the catch block, which rethrows exactly this error.
ScanAborts(outcome) ==
    /\ outcome # "table-fault"
    /\ CriticalScanStatus(outcome) # 0

SecurityContainerScan(outcome) ==
    /\ stage = "Security: Container Scan"
    /\ IF params.SKIP_SECURITY_SCAN
       THEN Skipped(stage) /\ UNCHANGED <<result, scan, echoed>>
       ELSE /\ scan' = outcome
            /\ IF ScanAborts(outcome)
               THEN /\ Failed(stage)
                    /\ echoed' = echoed \cup {"CRITICAL vulnerabilities found! Pipeline stopped for security review."}
               ELSE /\ Passed(stage)
                    /\ UNCHANGED result
                    /\ echoed' = IF outcome = "table-fault"
                                 THEN echoed \cup {"Trivy scan warning"}
                                 ELSE echoed \cup {"Container security scan passed - No CRITICAL vulnerabilities"}
    /\ UNCHANGED <<jenkinsfile, params, summary, appVars>>

\* docker login, docker push
DockerPush(ok) ==
    /\ stage = "Docker Push"
    /\ IF ok THEN Passed(stage) /\ UNCHANGED result ELSE Failed(stage)
    /\ UNCHANGED <<jenkinsfile, params, scan, echoed, summary, appVars>>

\* try { withKubeConfig(...) { kubectl ... } } catch: a failure of any step,
\* withKubeConfig included, sets UNSTABLE and the build continues.
KubernetesDeployment(ok) ==
    /\ jenkinsfile = "src/Jenkinsfile"
    /\ stage = "Kubernetes Deployment"
    /\ Passed(stage)
    /\ result' = IF ok THEN result ELSE "UNSTABLE"
    /\ echoed' = IF ok THEN echoed \cup {"Kubernetes deployment successful!"}
                       ELSE echoed \cup {"Kubernetes deployment failed"}
    /\ UNCHANGED <<jenkinsfile, params, scan, summary, appVars>>

\* when RUN_CHAOS_TEST; inside try/catch: a failure sets UNSTABLE.
ChaosTest(ok) ==
    /\ stage = "Chaos Test"
    /\ IF params.RUN_CHAOS_TEST
       THEN /\ Passed(stage)
            /\ result' = IF ok THEN result ELSE "UNSTABLE"
            /\ echoed' = IF ok THEN echoed \cup {"Chaos test completed"}
                               ELSE echoed \cup {"Chaos test issue"}
       ELSE Skipped(stage) /\ UNCHANGED <<result, echoed>>
    /\ UNCHANGED <<jenkinsfile, params, scan, summary, appVars>>

\* echo 'No tests implemented yet.' (src/app/app.js)
EarlierRunTests ==
    /\ jenkinsfile = "src/app/app.js"
    /\ stage = "Run Tests"
    /\ Passed(stage)
    /\ echoed' = echoed \cup {"No tests implemented yet."}
    /\ UNCHANGED <<jenkinsfile, params, result, scan, summary, appVars>>

\* withCredentials(dockerhub) { docker login, docker build, docker tag } (src/app/app.js)
DockerBuildAndPush(ok) ==
    /\ stage = "Docker Build & Push"
    /\ IF ok THEN Passed(stage) /\ UNCHANGED result ELSE Failed(stage)
    /\ UNCHANGED <<jenkinsfile, params, scan, echoed, summary, appVars>>

\* What the Kubernetes Deployment stage of src/app/app.js can meet.
\*   "deployed":      every step ends normally.
\*   "step-failed":   a kubectl step throws inside the try block.
\*   "no-kubeconfig": withKubeConfig itself throws (no credential
\*                    'kubeconfig-minikube', no kubectl); it encloses the try
\*                    block, so nothing catches the exception.
KubeOutcomes == {"deployed", "step-failed", "no-kubeconfig"}

\* withKubeConfig(...) { try { kubectl ... } catch { UNSTABLE } } (src/app/app.js)
EarlierKubernetesDeployment(outcome) ==
    /\ jenkinsfile = "src/app/app.js"
    /\ stage = "Kubernetes Deployment"
    /\ IF outcome = "no-kubeconfig"
       THEN Failed(stage) /\ UNCHANGED echoed
       ELSE /\ Passed(stage)
            /\ result' = IF outcome = "deployed" THEN result ELSE "UNSTABLE"
            /\ echoed' = IF outcome = "deployed"
                         THEN echoed \cup {"Kubernetes deployment successful!"}
                         ELSE echoed \cup {"Kubernetes deployment failed"}
    /\ UNCHANGED <<jenkinsfile, params, scan, summary, appVars>>

\* def buildStatus = currentBuild.result ?: 'SUCCESS'
BuildStatus(r) == IF r = "null" THEN "SUCCESS" ELSE r

\* def jsonBody = [...] (the fields that depend on the run); the pipeline of
\* src/app/app.js has neither securityScanPassed nor chaosTestRun.
JsonBody(buildStatus) ==
    IF jenkinsfile = "src/Jenkinsfile"
    THEN [status |-> buildStatus,
          hasErrorDetails |-> buildStatus \in {"FAILURE", "UNSTABLE"},
          kubernetesDeployed |-> buildStatus \in {"SUCCESS", "UNSTABLE"},
          securityScanPassed |-> ~params.SKIP_SECURITY_SCAN,
          chaosTestRun |-> params.RUN_CHAOS_TEST]
    ELSE [status |-> buildStatus,
          hasErrorDetails |-> buildStatus \in {"FAILURE", "UNSTABLE"},
          kubernetesDeployed |-> buildStatus \in {"SUCCESS", "UNSTABLE"}]

\* success { echo } / failure { echo } / unstable { echo }
ConditionEcho(buildStatus) ==
    IF jenkinsfile = "src/Jenkinsfile"
    THEN CASE buildStatus = "SUCCESS" -> "Build completed successfully! All security checks passed."
           [] buildStatus = "FAILURE" -> "Build failed. Check security reports and logs for details."
           [] buildStatus = "UNSTABLE" -> "Build completed with warnings. Review security findings."
    ELSE CASE buildStatus = "SUCCESS" -> "Build completed successfully! Kubernetes deployment done."
           [] buildStatus = "FAILURE" -> "Build failed. Check logs for details."
           [] buildStatus = "UNSTABLE" -> "Build completed with warnings. Kubernetes deployment may have issues."

\* What the end of the always block can meet.
\*   "sent":          httpRequest returns a response code in 100:399.
\*   "refused":       httpRequest throws inside the try block.
\*   "no-credential": withCredentials throws (no credential
\*                    'jenkins-api-token'); it encloses the try block, so
\*                    httpRequest is never called and the always block fails.
SendOutcomes == {"sent", "refused", "no-credential"}

\* post { always { ... } }, then the block of the build's condition.
\* httpRequest inside try/catch: a failure to send is only echoed. An
\* exception that leaves the always block makes the build a FAILURE; the
\* condition block that runs after it is the one of either status.
Post(outcome) ==
    /\ stage = "post"
    /\ LET buildStatus == BuildStatus(result)
       IN  IF outcome = "no-credential"
           THEN /\ UNCHANGED summary
                /\ result' = "FAILURE"
                /\ \E shown \in {buildStatus, "FAILURE"} :
                      echoed' = echoed \cup {"Error when executing always post condition", ConditionEcho(shown)}
           ELSE /\ summary' = Append(summary, [body |-> JsonBody(buildStatus),
                                               delivered |-> outcome = "sent"])
                /\ UNCHANGED result
                /\ echoed' = echoed
                      \cup {IF outcome = "sent" THEN "Build status sent successfully to backend."
                                                ELSE "Failed to send build status to backend"}
                      \cup {ConditionEcho(buildStatus)}
    /\ stage' = "done"
    /\ UNCHANGED <<jenkinsfile, params, executed, scan, appVars>>

\* A build of pipeline `file` as it starts, for given parameters.
PipeStart(file, p) ==
    /\ jenkinsfile = file
    /\ params = p
    /\ stage = StagesOf(file)[1]
    /\ result = "null"
    /\ executed = {}
    /\ scan = "none"
    /\ echoed = {}
    /\ summary = <<>>

Params == [RUN_CHAOS_TEST : BOOLEAN, SKIP_SECURITY_SCAN : BOOLEAN]

\* parameters { booleanParam(... defaultValue: false ...) }
DefaultParams == [RUN_CHAOS_TEST |-> FALSE, SKIP_SECURITY_SCAN |-> FALSE]

PipeNext ==
    \/ \E ok \in BOOLEAN : InstallDependencies(ok)
    \/ \E f \in BOOLEAN : SecuritySAST(f)
    \/ \E ok \in BOOLEAN : RunTests(ok)
    \/ \E ok \in BOOLEAN : DockerBuild(ok)
    \/ \E o \in ScanOutcomes : SecurityContainerScan(o)
    \/ \E ok \in BOOLEAN : DockerPush(ok)
    \/ \E ok \in BOOLEAN : KubernetesDeployment(ok)
    \/ \E ok \in BOOLEAN : ChaosTest(ok)
    \/ EarlierRunTests
    \/ \E ok \in BOOLEAN : DockerBuildAndPush(ok)
    \/ \E o \in KubeOutcomes : EarlierKubernetesDeployment(o)
    \/ \E o \in SendOutcomes : Post(o)

----------------------------------------------------------------------------
(* Specifications *)

vars == <<appVars, pipeVars>>

\* The running application (no build is running).
Init == AppInit /\ PipeStart("src/Jenkinsfile", DefaultParams)

Next == AppNext

Spec == Init /\ [][Next]_vars

\* The application under the scenario's requests.
SpecScenario == Init /\ [][ScenarioNext]_vars

\* One build of either pipeline, for every choice of the parameters (the
\* pipeline of src/app/app.js declares none and reads none).
PipeInit ==
    /\ AppInit
    /\ \/ \E p \in Params : PipeStart("src/Jenkinsfile", p)
       \/ PipeStart("src/app/app.js", DefaultParams)

SpecPipeline == PipeInit /\ [][PipeNext]_vars

----------------------------------------------------------------------------
(* Claims *)

Finished == {i \in DOMAIN requests : requests[i].stage = "finished"}

\* The value a scrape shows for a label combination (no entry: no line, 0).
Value(counter, labels) == IF labels \in DOMAIN counter THEN counter[labels] ELSE 0

Count(hist, labels) == IF labels \in DOMAIN hist THEN hist[labels].count ELSE 0

\* Every label combination a request can be recorded under.
LabelUniverse ==
    [method : {k[1] : k \in RequestKinds \cup ScenarioKinds},
     route : Routes \cup {k[2] : k \in RequestKinds \cup ScenarioKinds},
     status_code : {"200", "404", "500"}]

\* The label combinations that have an entry in a series or a finished
\* request; for every other one all values and all counts below are 0.
Known ==
    DOMAIN httpRequestDurationMicroseconds \cup DOMAIN httpRequestsTotal
        \cup DOMAIN httpErrorsTotal \cup {requests[i].labels : i \in Finished}

\* The finished requests that were recorded under a label combination.
FinishedWith(labels) == {i \in Finished : requests[i].labels = labels}

\* Request i finishes in this step.
Finishes(i) ==
    /\ i \in DOMAIN requests
    /\ requests[i].stage # "finished"
    /\ requests'[i].stage = "finished"

\* C1: for every method, route and status code, http_requests_total of that
\* label combination equals the number of requests that have finished with
\* it: each finished request is counted once, whatever else was requested
\* in between; a combination no request finished with has no value.
C1_TotalEqualsFinished ==
    /\ \A l \in Known :
          Value(httpRequestsTotal, l) = Cardinality(FinishedWith(l))
    /\ Known \subseteq LabelUniverse

\* Two requests have finished with one label combination and its counter is 2.
C1_Witness ==
    \E l \in DOMAIN httpRequestsTotal :
        /\ Cardinality(FinishedWith(l)) = 2
        /\ httpRequestsTotal[l] = 2

C2_ErrorsStep ==
    \A i \in DOMAIN requests :
        Finishes(i) =>
            LET l == requests'[i].labels
            IN  /\ requests[i].statusCode >= 500 =>
                    /\ Value(httpErrorsTotal', l) = Value(httpErrorsTotal, l) + 1
                    /\ \A k \in (Known \cup Known') \ {l} :
                          Value(httpErrorsTotal', k) = Value(httpErrorsTotal, k)
                /\ requests[i].statusCode < 500 => httpErrorsTotal' = httpErrorsTotal
                /\ (requests[i].method = "GET" /\ requests[i].path = "/api/error-test") =>
                    /\ l = [method |-> "GET", route |-> "/api/error-test", status_code |-> "500"]
                    /\ Value(httpErrorsTotal', l) = Value(httpErrorsTotal, l) + 1

C2_ErrorTestAnswers500 ==
    \A i \in DOMAIN requests :
        (requests[i].method = "GET" /\ requests[i].path = "/api/error-test") =>
            requests[i].statusCode = 500 /\ requests[i].body.kind = "json-error"

\* C2: a request that finishes with a status >= 500 raises http_errors_total
\* of its label combination by exactly 1 and leaves every other entry alone;
\* a request that finishes with a status < 500 leaves http_errors_total
\* unchanged; every GET /api/error-test answers 500 and its finish raises
\* http_errors_total{GET, /api/error-test, 500} by exactly 1.
C2_ErrorsByStatus == []C2_ErrorTestAnswers500 /\ [][C2_ErrorsStep]_vars

\* A GET /api/error-test has finished and is counted as one error, and a
\* request has finished with a status < 500 and has no error entry.
C2_Witness ==
    /\ \E i \in Finished :
          /\ requests[i].path = "/api/error-test"
          /\ Value(httpErrorsTotal, requests[i].labels) = 1
    /\ \E j \in Finished :
          /\ requests[j].statusCode < 500
          /\ requests[j].labels \notin DOMAIN httpErrorsTotal

\* The lines of the three series a snapshot must show, counted from the
\* requests that have finished: one http_requests_total line and one
\* observation count per label combination, one http_errors_total line per
\* label combination with a status >= 500.
ExpectedSamples ==
    LET seen == {requests[i].labels : i \in Finished}
    IN  {Sample("http_requests_total", l, 0, Cardinality(FinishedWith(l))) : l \in seen}
        \cup {Sample("http_request_duration_seconds_count", l, 0, Cardinality(FinishedWith(l))) :
                l \in seen}
        \cup {Sample("http_errors_total", l, 0, Cardinality(FinishedWith(l))) :
                l \in {k \in seen : k.status_code = "500"}}

CounterSamples(samples) ==
    {x \in samples : x.name \in {"http_requests_total", "http_errors_total",
                                   "http_request_duration_seconds_count"}}

\* Request i arrives in this step and is an export.
Exports(i) ==
    /\ i \notin DOMAIN requests
    /\ i \in DOMAIN requests'
    /\ requests'[i].route = "/metrics"

C3_SnapshotStep ==
    \A i \in DOMAIN requests' :
        Exports(i) => CounterSamples(requests'[i].snap) = ExpectedSamples

C3_BodyIsSnapshot ==
    \A i \in DOMAIN requests :
        (requests[i].route = "/metrics" /\ requests[i].body.kind = "metrics") =>
            /\ requests[i].statusCode = 200
            /\ requests[i].contentType = "metrics"
            /\ requests[i].body.samples = requests[i].snap

\* C3: the snapshot an export takes shows, for each of the three series and
\* every label combination observed so far, the value accumulated from the
\* requests that finished before the export, and a successful GET /metrics
\* answers with that snapshot.
C3_SnapshotShowsFinished == []C3_BodyIsSnapshot /\ [][C3_SnapshotStep]_vars

StatusLabels == [method |-> "GET", route |-> "/api/status", status_code |-> "200"]

ErrorTestLabels == [method |-> "GET", route |-> "/api/error-test", status_code |-> "500"]

\* The scenario: three GET /api/status, one GET /api/error-test, then a
\* GET /metrics whose body shows 3, 1 and 1.
C3_Witness ==
    /\ Len(requests) = 5
    /\ \A i \in 1..3 : i \in Finished /\ requests[i].labels = StatusLabels
    /\ 4 \in Finished /\ requests[4].labels = ErrorTestLabels
    /\ requests[5].route = "/metrics" /\ requests[5].body.kind = "metrics"
    /\ Sample("http_requests_total", StatusLabels, 0, 3) \in requests[5].body.samples
    /\ Sample("http_requests_total", ErrorTestLabels, 0, 1) \in requests[5].body.samples
    /\ Sample("http_errors_total", ErrorTestLabels, 0, 1) \in requests[5].body.samples
    /\ Cardinality(CounterSamples(requests[5].body.samples)) = 5

HistNotBelow(old, new) ==
    /\ new.count >= old.count
    /\ new.sum >= old.sum
    /\ \A b \in DOMAIN Buckets : new.buckets[b] >= old.buckets[b]

C4_Step ==
    /\ DOMAIN httpRequestDurationMicroseconds \subseteq DOMAIN httpRequestDurationMicroseconds'
    /\ DOMAIN httpRequestsTotal \subseteq DOMAIN httpRequestsTotal'
    /\ DOMAIN httpErrorsTotal \subseteq DOMAIN httpErrorsTotal'
    /\ \A l \in DOMAIN httpRequestsTotal : httpRequestsTotal'[l] >= httpRequestsTotal[l]
    /\ \A l \in DOMAIN httpErrorsTotal : httpErrorsTotal'[l] >= httpErrorsTotal[l]
    /\ \A l \in DOMAIN httpRequestDurationMicroseconds :
          HistNotBelow(httpRequestDurationMicroseconds[l], httpRequestDurationMicroseconds'[l])

\* C4: across every step (request start, finish, abort, export, clock) the
\* label combinations of each series only grow, and no counter value and no
\* histogram count, sum or bucket decreases.
C4_Monotonic == [][C4_Step]_vars

\* An export has been answered with a snapshot that shows an entry of
\* each series, and the entries are still there.
C4_Witness ==
    \E i \in DOMAIN requests :
        /\ requests[i].body.kind = "metrics"
        /\ \E x \in requests[i].body.samples :
              /\ x.name = "http_errors_total"
              /\ x.labels \in DOMAIN httpErrorsTotal
              /\ x.labels \in DOMAIN httpRequestsTotal
              /\ x.labels \in DOMAIN httpRequestDurationMicroseconds

\* One listener's effect on the three series: the entries of labels l rise
\* by one observation, one request and (status >= 500) one error; every
\* other label combination is as it was.
OnlyRecords(l, isError) ==
    /\ Count(httpRequestDurationMicroseconds', l) = Count(httpRequestDurationMicroseconds, l) + 1
    /\ Value(httpRequestsTotal', l) = Value(httpRequestsTotal, l) + 1
    /\ Value(httpErrorsTotal', l) = Value(httpErrorsTotal, l) + (IF isError THEN 1 ELSE 0)
    /\ \A k \in (Known \cup Known') \ {l} :
          /\ Count(httpRequestDurationMicroseconds', k) = Count(httpRequestDurationMicroseconds, k)
          /\ Value(httpRequestsTotal', k) = Value(httpRequestsTotal, k)
          /\ Value(httpErrorsTotal', k) = Value(httpErrorsTotal, k)

C5_Step ==
    \A i \in DOMAIN requests :
        Finishes(i) =>
            /\ OnlyRecords(requests'[i].labels, requests[i].statusCode >= 500)
            /\ \A j \in DOMAIN requests \ {i} : requests'[j] = requests[j]

\* Requests i and j were in flight together: j arrived before i finished.
Overlapped(i, j) ==
    /\ i < j
    /\ {i, j} \subseteq Finished
    /\ requests[j].t0 < requests[i].t1

C5_NoneLost ==
    \A i, j \in Finished :
        (Overlapped(i, j) /\ requests[i].labels = requests[j].labels) =>
            /\ Value(httpRequestsTotal, requests[i].labels) = Cardinality(FinishedWith(requests[i].labels))
            /\ Count(httpRequestDurationMicroseconds, requests[i].labels) =
                  Cardinality(FinishedWith(requests[i].labels))

\* C5: whatever requests are in flight, the listener of a finishing request
\* applies its three updates in one step, to its own label combination only
\* and without touching another request; requests that were in flight
\* together with the same labels are all counted.
C5_NoLostIncrement == []C5_NoneLost /\ [][C5_Step]_vars

\* Two requests with the same labels were in flight together, both have
\* finished and the counter shows 2.
C5_Witness ==
    \E i, j \in Finished :
        /\ Overlapped(i, j)
        /\ requests[i].labels = requests[j].labels
        /\ httpRequestsTotal[requests[i].labels] = 2

Aborted == {i \in DOMAIN requests : requests[i].conn = "aborted"}

\* The labels a request would be recorded under if its listener ran.
WouldBe(i) ==
    [method |-> requests[i].method,
     route |-> IF requests[i].route # NoRoute THEN requests[i].route ELSE requests[i].path,
     status_code |-> StatusToString(requests[i].statusCode)]

C6_NothingRecorded ==
    /\ \A i \in Aborted : i \notin Finished /\ requests[i].labels = NoLabels
    /\ \A l \in Known \cup {WouldBe(i) : i \in Aborted} :
          /\ Count(httpRequestDurationMicroseconds, l) = Cardinality(FinishedWith(l) \ Aborted)
          /\ Value(httpRequestsTotal, l) = Cardinality(FinishedWith(l) \ Aborted)
          /\ Value(httpErrorsTotal, l) =
                IF l.status_code = "500" THEN Cardinality(FinishedWith(l) \ Aborted) ELSE 0

C6_Step ==
    \A i \in DOMAIN requests :
        /\ (requests[i].conn = "open" /\ requests'[i].conn = "aborted") =>
              /\ httpRequestDurationMicroseconds' = httpRequestDurationMicroseconds
              /\ httpRequestsTotal' = httpRequestsTotal
              /\ httpErrorsTotal' = httpErrorsTotal
        /\ i \in Aborted =>
              /\ requests'[i].conn = "aborted"
              /\ requests'[i].stage # "finished"

\* C6: the step in which a request's connection aborts leaves the three
\* series unchanged; an aborted request stays aborted, never finishes and
\* is never recorded: the series hold exactly the requests that finished.
C6_AbortRecordsNothing == []C6_NothingRecorded /\ [][C6_Step]_vars

\* A response was ended and its connection then aborted, while another
\* request with the same labels finished: the counter shows 1.
C6_Witness ==
    \E i \in Aborted, j \in Finished :
        /\ requests[i].stage = "ended"
        /\ WouldBe(i) = requests[j].labels
        /\ httpRequestsTotal[requests[j].labels] = 1
        /\ httpRequestDurationMicroseconds[requests[j].labels].count = 1

\* C7: a finished request is recorded under the matched route pattern when
\* the router matched one, and under its raw path when none matched; so a
\* matched request is recorded under one of the six registered patterns,
\* whatever its raw URL.
C7_RouteLabel ==
    \A i \in Finished :
        /\ requests[i].route # NoRoute =>
              /\ requests[i].labels.route = requests[i].route
              /\ requests[i].labels.route \in Routes
        /\ requests[i].route = NoRoute => requests[i].labels.route = requests[i].path
        /\ requests[i].labels.method = requests[i].method

\* A matched request whose raw URL is not the pattern, and an unmatched one
\* recorded under a raw path that is no pattern, have both finished.
C7_Witness ==
    /\ \E i \in Finished :
          /\ requests[i].path = "/API/Status/"
          /\ requests[i].labels.route = "/api/status"
    /\ \E j \in Finished :
          /\ requests[j].route = NoRoute
          /\ requests[j].path = "/nope"
          /\ requests[j].statusCode = 404
          /\ requests[j].labels.route \notin Routes

Range(f) == {f[x] : x \in DOMAIN f}

\* The export of request i has settled (its handler ran past the await).
Settled(i) ==
    /\ requests[i].route = "/metrics"
    /\ requests[i].stage # "awaiting"

\* C8 (the claim as stated): a GET /metrics whose serialization succeeded is
\* answered 200 with the metrics content type and the snapshot; one whose
\* serialization failed is logged and answered 500 with the raw error
\* content as body, and that response finishes like any other, so that it
\* is recorded under {GET, /metrics, 500}.
C8_ExportAnswered ==
    \A i \in DOMAIN requests :
        Settled(i) =>
            \/ /\ requests[i].statusCode = 200
               /\ requests[i].contentType = "metrics"
               /\ requests[i].body = Body("metrics", requests[i].snap)
            \/ /\ requests[i].statusCode = 500
               /\ requests[i].stage \in {"ended", "finished"}
               /\ requests[i].body.kind = "raw-error"
               /\ "metrics-error" \in Range(console)

RECURSIVE SumDurations(_)
SumDurations(S) ==
    IF S = {} THEN 0
    ELSE LET i == CHOOSE x \in S : TRUE
         IN  requests[i].duration + SumDurations(S \ {i})

\* The true duration of a finished request, in ticks.
TrueTicks(i) == requests[i].t1 - requests[i].t0

Abs(x) == IF x < 0 THEN -x ELSE x

\* C9 (the claim as stated): the observed duration is finish time - start
\* time with sub-millisecond resolution, so two finished requests whose
\* true durations differ by less than a millisecond, and differ, are
\* observed with different durations.
C9_SubMillisecond ==
    /\ \A i \in Finished : requests[i].duration * TicksPerMs = TrueTicks(i)
    /\ \A i, j \in Finished :
          (TrueTicks(i) # TrueTicks(j) /\ Abs(TrueTicks(i) - TrueTicks(j)) < TicksPerMs) =>
              requests[i].duration # requests[j].duration

\* C9 (amended): the observed duration is the difference of two readings of
\* a millisecond clock: a whole number of milliseconds that is within one
\* millisecond of the true duration, and that is what the histogram holds.
C9_MillisecondResolution ==
    /\ \A i \in Finished :
          /\ requests[i].duration >= 0
          /\ Abs(requests[i].duration * TicksPerMs - TrueTicks(i)) < TicksPerMs
    /\ \A l \in DOMAIN httpRequestDurationMicroseconds :
          httpRequestDurationMicroseconds[l].sum = SumDurations(FinishedWith(l))

\* Two finished requests whose true durations differ by less than a
\* millisecond, and differ, are observed with the same duration.
C9_Witness ==
    \E i, j \in Finished :
        /\ TrueTicks(i) # TrueTicks(j)
        /\ Abs(TrueTicks(i) - TrueTicks(j)) < TicksPerMs
        /\ requests[i].duration = requests[j].duration
        /\ requests[i].labels = requests[j].labels
        /\ httpRequestDurationMicroseconds[requests[i].labels].count = 2

AfterScan == {"Docker Push", "Kubernetes Deployment", "Chaos Test"}

\* The container scan stage ran in this build.
Scanned == "Security: Container Scan" \in executed

\* C10 (the claim as stated): in a run that does not skip the security
\* scans, CRITICAL findings of the container scan abort the pipeline at
\* that stage (none of Docker Push, Kubernetes Deployment, Chaos Test runs,
\* the result is FAILURE), and a scanner fault that is not a CRITICAL
\* finding does not abort the run: the pipeline goes on to Docker Push.
C10_ScanAbortsOnlyOnCritical ==
    (~params.SKIP_SECURITY_SCAN /\ Scanned) =>
        /\ scan = "critical" =>
              /\ result = "FAILURE"
              /\ executed \cap AfterScan = {}
              /\ stage \in {"post", "done"}
        /\ scan \in {"table-fault", "scan-fault"} =>
              /\ result # "FAILURE" \/ "Docker Push" \in executed
              /\ stage \in AfterScan \/ "Docker Push" \in executed

\* The three series agree on a label combination, as values read from the
\* series themselves.
SeriesAgree(hist, total, errors, l) ==
    /\ l \in DOMAIN hist /\ l \in DOMAIN total
    /\ hist[l].count = total[l]
    /\ IF l.status_code = "500"
       THEN l \in DOMAIN errors /\ errors[l] = total[l]
       ELSE l \notin DOMAIN errors

\* The value a snapshot shows for a series and a label combination (-1: no line).
Shown(samples, name, l) ==
    IF \E x \in samples : x.name = name /\ x.labels = l
    THEN (CHOOSE x \in samples : x.name = name /\ x.labels = l).value
    ELSE -1

\* The label combinations a snapshot has a line for.
ShownLabels(samples) == {x.labels : x \in samples}

\* The three series agree on every label combination a snapshot shows.
SnapshotAgrees(samples) ==
    \A l \in ShownLabels(samples) :
        /\ Shown(samples, "http_requests_total", l) >= 1
        /\ Shown(samples, "http_request_duration_seconds_count", l)
              = Shown(samples, "http_requests_total", l)
        /\ Shown(samples, "http_errors_total", l)
              = IF l.status_code = "500" THEN Shown(samples, "http_requests_total", l) ELSE -1

\* C13: in every state between callbacks, for every label combination the
\* observation count of http_request_duration_seconds equals
\* http_requests_total, and http_errors_total equals http_requests_total
\* when the status code is >= 500 and has no entry when it is < 500; every
\* snapshot an export took, and every body it answered with, shows the
\* three series in agreement.
C13_SeriesInStep ==
    /\ \A l \in Known :
          SeriesAgree(httpRequestDurationMicroseconds, httpRequestsTotal, httpErrorsTotal, l)
    /\ \A i \in DOMAIN requests :
          /\ SnapshotAgrees(requests[i].snap)
          /\ SnapshotAgrees(requests[i].body.samples)

\* An export answered with a snapshot that shows a 500 label combination
\* with one observation, one request and one error, while a combination
\* with a status < 500 has an observation and a request and no error entry.
C13_Witness ==
    /\ \E i \in DOMAIN requests :
          /\ requests[i].body.kind = "metrics"
          /\ Shown(requests[i].body.samples, "http_errors_total", ErrorTestLabels) = 1
          /\ Shown(requests[i].body.samples, "http_requests_total", ErrorTestLabels) = 1
          /\ Shown(requests[i].body.samples, "http_request_duration_seconds_count", ErrorTestLabels) = 1
    /\ \E l \in Known :
          /\ l.status_code # "500"
          /\ httpRequestsTotal[l] = 1
          /\ l \notin DOMAIN httpErrorsTotal

\* A step that runs the Kubernetes Deployment stage.
RunsKubernetesDeployment ==
    /\ stage = "Kubernetes Deployment"
    /\ "Kubernetes Deployment" \in executed' \ executed

\* A step that runs the post section.
RunsPost == stage = "post" /\ stage' = "done"

\* The Kubernetes Deployment stage never aborts the build (the stage after
\* it is the next to run, the result is left alone or becomes UNSTABLE),
\* UNSTABLE stays UNSTABLE, and the post section hands exactly one summary
\* to httpRequest, with the build's status, and leaves the result alone.
C11_Step ==
    /\ RunsKubernetesDeployment =>
          /\ stage' = After(stage)
          /\ result' \in {result, "UNSTABLE"}
          /\ "Kubernetes deployment failed" \in echoed' => result' = "UNSTABLE"
    /\ result = "UNSTABLE" => result' = "UNSTABLE"
    /\ RunsPost =>
          /\ Len(summary') = 1
          /\ summary'[1].body.status = BuildStatus(result)
          /\ result' = result

\* No summary before the post section has run, one after it.
C11_Once == Len(summary) = IF stage = "done" THEN 1 ELSE 0

\* C11: a failure of any step of the Kubernetes Deployment stage sets the
\* build result to UNSTABLE instead of aborting: the remaining stages still
\* run, the result never becomes SUCCESS again, and the post section still
\* sends the result summary with status UNSTABLE; in every run sending the
\* summary is attempted exactly once, and a failure to send it does not
\* change the build result.
C11_UnstableAndOneSummary == []C11_Once /\ [][C11_Step]_vars

\* The summaries the pipeline of src/Jenkinsfile handed to httpRequest.
Summaries ==
    IF jenkinsfile = "src/Jenkinsfile" THEN {summary[i].body : i \in DOMAIN summary} ELSE {}

\* kubernetesDeployed is true exactly when the Kubernetes Deployment stage ran.
KubernetesFlagTellsRun ==
    \A b \in Summaries : b.kubernetesDeployed <=> ("Kubernetes Deployment" \in executed)

\* securityScanPassed is true exactly when the two security scan stages ran.
ScanFlagTellsRun ==
    \A b \in Summaries :
        b.securityScanPassed <=> ({"Security: SAST", "Security: Container Scan"} \subseteq executed)

\* chaosTestRun is true exactly when the Chaos Test stage ran.
ChaosFlagTellsRun ==
    \A b \in Summaries : b.chaosTestRun <=> ("Chaos Test" \in executed)

\* C12: in the result summary sent at the end of a run, kubernetesDeployed
\* is true exactly when the Kubernetes Deployment stage executed,
\* securityScanPassed exactly when the security scan stages executed, and
\* chaosTestRun exactly when the Chaos Test stage executed, for every
\* combination of the parameters and every stage at which the run may fail.
C12_FlagsTellWhatRan ==
    /\ KubernetesFlagTellsRun
    /\ ScanFlagTellsRun
    /\ ChaosFlagTellsRun

====
